---- MODULE Spec2Model ----
(***************************************************************************)
(* chws_subset: the exclusion set (EXCLUDED_CODEPOINTS), the cmap edit of  *)
(* a TrueType collection (remove_codepoints_from_ttc) and the pipeline     *)
(* around it (download_file, download_and_patch_noto_cjk_font).            *)
(*                                                                         *)
(* The file system is a function from paths, <<directory, base name>>, to   *)
(* the content of the file there.  A content is Absent, Empty (zero bytes: a file just opened with   *)
(* "wb"), Truncated (a write that stopped part way), or a container: a     *)
(* sequence of fonts.  A font is a record [id, cmap, other]: cmap maps a    *)
(* subtable identifier to a codepoint -> glyph function, other stands for  *)
(* every other table.                                                      *)
(***************************************************************************)
EXTENDS Integers, Sequences, FiniteSets, TLC

VARIABLES
    pc,         \* position in the running function
    fs,         \* path -> content of the file there
    url,        \* download_and_patch_noto_cjk_font: the url, split at "/"
    ttc_path,   \* remove_codepoints_from_ttc: path of the input file
    out_dir,    \* remove_codepoints_from_ttc: destination directory
    ttc,        \* the loaded collection (in memory), <<>> before the load
    i,          \* index of the next font of the for loop
    fs0,        \* history: the file system when the current call started
    requested,  \* the exclusion set the caller would like to supply
    rerun,      \* TRUE once the function was called again on its output
    firstOut,   \* history: the container the first call wrote
    dlResult,   \* what download_file returned: "none", "true", "false"
    calls       \* history: the steps download_and_patch_noto_cjk_font ran

vars == <<pc, fs, url, ttc_path, out_dir, ttc, i, fs0, requested, rerun,
          firstOut, dlResult, calls>>

(***************************************************************************)
(* Bounds of the model.                                                    *)
(***************************************************************************)
MaxFonts == 2

(***************************************************************************)
(* The exclusion set, lines 15-61.                                         *)
(***************************************************************************)
EMOJI_IN_CJK ==
    { \h26BD, \h26BE, \h1F18E, \h1F191, \h1F192, \h1F193, \h1F194, \h1F195,
      \h1F196, \h1F197, \h1F198, \h1F199, \h1F19A, \h1F201, \h1F21A, \h1F22F,
      \h1F232, \h1F233, \h1F234, \h1F235, \h1F236, \h1F238, \h1F239, \h1F23A,
      \h1F250, \h1F251 }

ANDROID_EMOJI ==
    { \h2600, \h2601, \h260E, \h261D, \h263A, \h2660, \h2663, \h2665,
      \h2666, \h270C, \h2744, \h2764 }

\* The text handed to parse_int_ranges, "0000-001F": one token, a range of
\* two hexadecimal numerals, each a sequence of digits.
CONTROL_CHARS_TEXT ==
    << [first |-> <<"0", "0", "0", "0">>, last |-> <<"0", "0", "1", "F">>] >>

HexDigit(d) ==
    CASE d = "0" -> 0  [] d = "1" -> 1  [] d = "2" -> 2  [] d = "3" -> 3
      [] d = "4" -> 4  [] d = "5" -> 5  [] d = "6" -> 6  [] d = "7" -> 7
      [] d = "8" -> 8  [] d = "9" -> 9  [] d = "A" -> 10 [] d = "B" -> 11
      [] d = "C" -> 12 [] d = "D" -> 13 [] d = "E" -> 14 [] d = "F" -> 15

RECURSIVE ParseHex(_)
ParseHex(digits) ==
    IF digits = <<>> THEN 0
    ELSE 16 * ParseHex(SubSeq(digits, 1, Len(digits) - 1))
         + HexDigit(digits[Len(digits)])

\* The integers of one token: a range is inclusive of both its ends.
RangeExclusive(tok) == ParseHex(tok.first) .. (ParseHex(tok.last) - 1)
RangeOf(tok) == ParseHex(tok.first) .. ParseHex(tok.last)

parse_int_ranges(text) == UNION { RangeOf(text[k]) : k \in DOMAIN text }

CONTROL_CHARS == parse_int_ranges(CONTROL_CHARS_TEXT)

\* sorted(s): the ascending list of the elements of a set.
RECURSIVE sorted(_)
sorted(s) ==
    IF s = {} THEN <<>>
    ELSE LET m == CHOOSE x \in s : \A y \in s : x <= y
         IN  <<m>> \o sorted(s \ {m})

\* frozenset(l): the set of the elements of a list.
frozenset(l) == { l[k] : k \in DOMAIN l }

\* Line 61: frozenset(sorted(a | b | c)).
ExclusionSetOf(a, b, c) == frozenset(sorted((a \cup b) \cup c))

EXCLUDED_CODEPOINTS ==
    ExclusionSetOf(EMOJI_IN_CJK, ANDROID_EMOJI, CONTROL_CHARS)

(***************************************************************************)
(* Files and containers.                                                   *)
(***************************************************************************)
Absent == [kind |-> "absent", fonts |-> <<>>]
Empty == [kind |-> "empty", fonts |-> <<>>]
Truncated == [kind |-> "truncated", fonts |-> <<>>]
\* The file a well-formed collection of these fonts is stored as.
FileOf(fonts) == [kind |-> "ttc", fonts |-> fonts]

InputDir == "temp/input"
ChwsDir == "temp/chws_output"
ResultDir == "system/fonts"
Dirs == {InputDir, ChwsDir, ResultDir}
BaseNames == {"NotoSansCJK-Regular.ttc", "NotoSerifCJK-Regular.ttc"}
Paths == Dirs \X BaseNames
NoPath == <<"", "">>

\* dir / name
Join(dir, name) == <<dir, name>>
\* path.name
NameOf(path) == path[2]

\* The Windows Unicode subtables, <<format, platformID, platEncID>>.
SubtableIds == { <<4, 3, 1>>, <<12, 3, 10>> }

\* The codepoint -> glyph functions a subtable of an input may hold.
SubtableChoices ==
    { <<>>,
      (\h41 :> 17),
      (\h09 :> 5) @@ (\h41 :> 17) @@ (\h26BD :> 302),
      (\h1F :> 6) @@ (\h2600 :> 303) }

FontChoices(k) ==
    { [id |-> k, cmap |-> c, other |-> <<"tables", k>>] :
        c \in [SubtableIds -> SubtableChoices] }

RECURSIVE ContainersOfLen(_)
ContainersOfLen(n) ==
    IF n = 0 THEN { <<>> }
    ELSE { Append(c, f) : c \in ContainersOfLen(n - 1), f \in FontChoices(n) }

Containers == UNION { ContainersOfLen(n) : n \in 1 .. MaxFonts }

IsContainer(content) == content.kind = "ttc"

NoFiles == [p \in Paths |-> Absent]

(***************************************************************************)
(* font_data.delete_from_cmap(font, chars), line 70: every key of chars    *)
(* is deleted from the subtables of the font's cmap table.                 *)
(***************************************************************************)
Without(m, chars) == [c \in (DOMAIN m) \ chars |-> m[c]]

\* Variant: only the format 4 subtable is edited.
delete_from_cmap_first_table(font, chars) ==
    [font EXCEPT !.cmap = [t \in DOMAIN font.cmap |->
                              IF t = <<4, 3, 1>>
                              THEN Without(font.cmap[t], chars)
                              ELSE font.cmap[t]]]

\* Variant: a subtable that holds a key of chars is emptied.
delete_from_cmap_clearing(font, chars) ==
    [font EXCEPT !.cmap = [t \in DOMAIN font.cmap |->
                              IF (DOMAIN font.cmap[t]) \cap chars = {}
                              THEN font.cmap[t]
                              ELSE <<>>]]

\* Variant: a subtable the deletion leaves without entries is dropped.
delete_from_cmap_dropping(font, chars) ==
    [font EXCEPT !.cmap =
        [t \in { u \in DOMAIN font.cmap :
                    (DOMAIN font.cmap[u]) \ chars # {} } |->
            Without(font.cmap[t], chars)]]

\* Variant: only the smallest key of chars a subtable holds is deleted.
delete_from_cmap_one_key(font, chars) ==
    [font EXCEPT !.cmap = [t \in DOMAIN font.cmap |->
        LET hit == (DOMAIN font.cmap[t]) \cap chars
        IN  IF hit = {} THEN font.cmap[t]
            ELSE Without(font.cmap[t],
                         { CHOOSE c \in hit : \A d \in hit : c <= d })]]

delete_from_cmap(font, chars) ==
    [font EXCEPT !.cmap = [t \in DOMAIN font.cmap |->
                              Without(font.cmap[t], chars)]]

\* Variant: the set of the caller is the one passed on.
ExclusionFromCaller == requested

\* The second argument of the call of line 70: the module's constant.
ExclusionArgument == EXCLUDED_CODEPOINTS

\* Variant: the loop stops after its first iteration.
LoopDoneAfterFirst(k, n) == k > 1

\* The for loop of lines 69-70 is over when every font was visited.
LoopDone(k, n) == k > n

(***************************************************************************)
(* remove_codepoints_from_ttc(ttc_path, out_dir), lines 64-79.             *)
(***************************************************************************)
\* Line 71: out_dir / ttc_path.name.
out_path == Join(out_dir, NameOf(ttc_path))

\* Line 67: ttLib.TTCollection(ttc_path) parses the file, or raises.
Load ==
    /\ pc = "start"
    /\ IF IsContainer(fs[ttc_path])
       THEN /\ ttc' = fs[ttc_path].fonts
            /\ i' = 1
            /\ pc' = "loop"
       ELSE /\ pc' = "ParseError"
            /\ UNCHANGED <<ttc, i>>
    /\ UNCHANGED <<fs, url, ttc_path, out_dir, fs0, requested, rerun,
                   firstOut, dlResult, calls>>

\* Lines 69-70: one iteration of the loop.
EditFont ==
    /\ pc = "loop"
    /\ ~LoopDone(i, Len(ttc))
    /\ ttc' = [ttc EXCEPT ![i] = delete_from_cmap(ttc[i], ExclusionArgument)]
    /\ i' = i + 1
    /\ UNCHANGED <<pc, fs, url, ttc_path, out_dir, fs0, requested, rerun,
                   firstOut, dlResult, calls>>

\* Lines 71-73: the loop is over; ttc.save opens out_path for writing, which
\* creates the file or cuts it to zero bytes (the input file itself when
\* out_dir is its directory: nothing compares out_path with ttc_path).
SaveOpen ==
    /\ pc = "loop"
    /\ LoopDone(i, Len(ttc))
    /\ fs' = [fs EXCEPT ![out_path] = Empty]
    /\ pc' = "writing"
    /\ UNCHANGED <<url, ttc_path, out_dir, ttc, i, fs0, requested, rerun,
                   firstOut, dlResult, calls>>

\* Line 73: the open fails (permission denied, path not writable).
SaveOpenFail ==
    /\ pc = "loop"
    /\ LoopDone(i, Len(ttc))
    /\ pc' = "WriteError"
    /\ UNCHANGED <<fs, url, ttc_path, out_dir, ttc, i, fs0, requested, rerun,
                   firstOut, dlResult, calls>>

\* Lines 73-79: the collection is written and the sizes are logged.
SaveWrite ==
    /\ pc = "writing"
    /\ fs' = [fs EXCEPT ![out_path] = FileOf(ttc)]
    /\ firstOut' = IF rerun THEN firstOut ELSE ttc
    /\ pc' = "done"
    /\ UNCHANGED <<url, ttc_path, out_dir, ttc, i, fs0, requested, rerun,
                   dlResult, calls>>

\* Line 73: a write fails part way (disk full); nothing removes the file.
SaveWriteFail ==
    /\ pc = "writing"
    /\ fs' = [fs EXCEPT ![out_path] = Truncated]
    /\ pc' = "WriteError"
    /\ UNCHANGED <<url, ttc_path, out_dir, ttc, i, fs0, requested, rerun,
                   firstOut, dlResult, calls>>

\* The caller runs the function again, on the file the first call wrote.
Rerun ==
    /\ pc = "done"
    /\ ~rerun
    /\ rerun' = TRUE
    /\ ttc_path' = out_path
    /\ out_dir' \in Dirs
    /\ fs0' = fs
    /\ ttc' = <<>>
    /\ i' = 0
    /\ pc' = "start"
    /\ UNCHANGED <<fs, url, requested, firstOut, dlResult, calls>>

(***************************************************************************)
(* download_file (lines 85-106) and download_and_patch_noto_cjk_font       *)
(* (lines 109-133).                                                        *)
(***************************************************************************)
StatusCodes == {200, 404}

Urls == { <<"https:", "", "github.com", "notofonts", name>> :
            name \in BaseNames }

\* Line 110: url.split("/")[-1].
base_file_name == url[Len(url)]

input_file == Join(InputDir, base_file_name)
output_file == Join(ChwsDir, base_file_name)

\* Lines 113-116 and 88: the input directory is made and download_file
\* opens the file to save to, before the request is sent.
DownloadOpen ==
    /\ pc = "pipeline"
    /\ fs' = [fs EXCEPT ![input_file] = Empty]
    /\ calls' = Append(calls, "download_file")
    /\ pc' = "request"
    /\ UNCHANGED <<url, ttc_path, out_dir, ttc, i, fs0, requested, rerun,
                   firstOut, dlResult>>

\* Lines 89-92: the response arrives; any status but 200 returns False.
DownloadResponse ==
    /\ pc = "request"
    /\ \E status \in StatusCodes :
          IF status # 200
          THEN /\ dlResult' = "False"
               /\ pc' = "downloaded"
          ELSE /\ dlResult' = dlResult
               /\ pc' = "stream"
    /\ UNCHANGED <<fs, url, ttc_path, out_dir, ttc, i, fs0, requested, rerun,
                   firstOut, calls>>

\* Lines 93-106: the body is written to the file; download_file returns True.
DownloadStream ==
    /\ pc = "stream"
    /\ \E body \in { FileOf(c) : c \in Containers } \cup {Empty} :
          fs' = [fs EXCEPT ![input_file] = body]
    /\ dlResult' = "True"
    /\ pc' = "downloaded"
    /\ UNCHANGED <<url, ttc_path, out_dir, ttc, i, fs0, requested, rerun,
                   firstOut, calls>>

\* Variant: the function goes on whatever download_file returned.
ProceedAlways(result) == TRUE

\* Line 116: "if not download_file(...)" lets the function go on.
Proceed(result) == result = "True"

\* Lines 116-118: the result of download_file is tested.
CheckDownload ==
    /\ pc = "downloaded"
    /\ pc' = IF Proceed(dlResult) THEN "chws" ELSE "returned"
    /\ UNCHANGED <<fs, url, ttc_path, out_dir, ttc, i, fs0, requested, rerun,
                   firstOut, dlResult, calls>>

\* What chws_tool.add_chws writes for a collection: the cmap tables as they
\* were, the other tables patched.
Patched(fonts) ==
    [k \in DOMAIN fonts |-> [fonts[k] EXCEPT !.other = <<"chws", fonts[k].id>>]]

\* Lines 120-125: chws_tool.add_chws(input_file, output_file); a file that
\* is no font makes it raise.
AddChws ==
    /\ pc = "chws"
    /\ calls' = Append(calls, "add_chws")
    /\ IF IsContainer(fs[input_file])
       THEN /\ fs' = [fs EXCEPT ![output_file] =
                                    FileOf(Patched(fs[input_file].fonts))]
            /\ pc' = "subset"
       ELSE /\ fs' = fs
            /\ pc' = "ChwsError"
    /\ UNCHANGED <<url, ttc_path, out_dir, ttc, i, fs0, requested, rerun,
                   firstOut, dlResult>>

\* Lines 127-131: remove_codepoints_from_ttc(output_file, result_path).
CallSubset ==
    /\ pc = "subset"
    /\ calls' = Append(calls, "remove_codepoints_from_ttc")
    /\ ttc_path' = output_file
    /\ out_dir' = ResultDir
    /\ fs0' = fs
    /\ pc' = "start"
    /\ UNCHANGED <<fs, url, ttc, i, requested, rerun, firstOut, dlResult>>

\* Lines 132-133: shutil.rmtree(Path("temp")).
RemoveTemp ==
    /\ pc = "done"
    /\ calls' = Append(calls, "rmtree")
    /\ fs' = [p \in Paths |->
                IF p[1] \in {InputDir, ChwsDir} THEN Absent ELSE fs[p]]
    /\ pc' = "finished"
    /\ UNCHANGED <<url, ttc_path, out_dir, ttc, i, fs0, requested, rerun,
                   firstOut, dlResult>>

\* The result of an earlier run, which system/fonts may still hold.
EarlierResult ==
    FileOf(<< [id |-> 1, cmap |-> [t \in SubtableIds |-> (\h41 :> 17)],
               other |-> <<"chws", 1>>] >>)

\* A call of download_and_patch_noto_cjk_font(url): no temp directory yet,
\* system/fonts empty or holding the result of an earlier run.
InitPipeline ==
    /\ pc = "pipeline"
    /\ url \in Urls
    /\ \E old \in {Absent, EarlierResult} :
          fs = [NoFiles EXCEPT ![Join(ResultDir, base_file_name)] = old]
    /\ ttc_path = NoPath
    /\ out_dir = ""
    /\ ttc = <<>>
    /\ i = 0
    /\ fs0 = fs
    /\ requested \in { {}, EXCLUDED_CODEPOINTS }
    /\ rerun = FALSE
    /\ firstOut = <<>>
    /\ dlResult = "none"
    /\ calls = <<>>

NextPipeline ==
    \/ DownloadOpen
    \/ DownloadResponse
    \/ DownloadStream
    \/ CheckDownload
    \/ AddChws
    \/ CallSubset
    \/ Load
    \/ EditFont
    \/ SaveOpen
    \/ SaveOpenFail
    \/ SaveWrite
    \/ SaveWriteFail
    \/ RemoveTemp

SpecPipeline == InitPipeline /\ [][NextPipeline]_vars

\* A direct call of remove_codepoints_from_ttc on a file of ChwsDir.
Init ==
    /\ pc = "start"
    /\ \E content \in { FileOf(c) : c \in Containers } \cup {Empty},
          name \in BaseNames :
          /\ fs = [NoFiles EXCEPT ![Join(ChwsDir, name)] = content]
          /\ ttc_path = Join(ChwsDir, name)
    /\ url = <<>>
    /\ out_dir \in {ChwsDir, ResultDir}
    /\ ttc = <<>>
    /\ i = 0
    /\ fs0 = fs
    /\ requested \in { {}, EXCLUDED_CODEPOINTS }
    /\ rerun = FALSE
    /\ firstOut = <<>>
    /\ dlResult = "none"
    /\ calls = <<>>

Next ==
    \/ Load
    \/ EditFont
    \/ SaveOpen
    \/ SaveOpenFail
    \/ SaveWrite
    \/ SaveWriteFail
    \/ Rerun

Spec == Init /\ [][Next]_vars

(***************************************************************************)
(* The properties.                                                         *)
(***************************************************************************)
\* The fonts of the file the current call was given, and of the file at
\* out_path.
InputFonts == fs0[ttc_path].fonts
OutputFonts == fs[out_path].fonts
Keys(m) == DOMAIN m
HasExcluded(font) ==
    \E t \in DOMAIN font.cmap : Keys(font.cmap[t]) \cap EXCLUDED_CODEPOINTS # {}

Preservation ==
    pc = "done" =>
        /\ DOMAIN OutputFonts = DOMAIN InputFonts
        /\ \A k \in DOMAIN InputFonts :
              \A t \in DOMAIN InputFonts[k].cmap :
                 /\ t \in DOMAIN OutputFonts[k].cmap
                 /\ \A c \in Keys(InputFonts[k].cmap[t]) \ EXCLUDED_CODEPOINTS :
                       /\ c \in Keys(OutputFonts[k].cmap[t])
                       /\ OutputFonts[k].cmap[t][c] = InputFonts[k].cmap[t][c]
                 /\ \A c \in Keys(OutputFonts[k].cmap[t]) :
                       /\ c \in Keys(InputFonts[k].cmap[t])
                       /\ OutputFonts[k].cmap[t][c] = InputFonts[k].cmap[t][c]

\* C2 witness: a completed call whose input had a subtable holding both
\* excluded and other keys.
PreservationWitness ==
    /\ pc = "done"
    /\ \E k \in DOMAIN InputFonts :
          \E t \in DOMAIN InputFonts[k].cmap :
             /\ Keys(InputFonts[k].cmap[t]) \cap EXCLUDED_CODEPOINTS # {}
             /\ Keys(InputFonts[k].cmap[t]) \ EXCLUDED_CODEPOINTS # {}

\* C3: structural invariance: the collection in memory never changes its
\* number of fonts, and the output of a completed call has the fonts of the
\* input in the same order, each with the same subtable identifiers and the
\* same other tables.
StructuralInvariance ==
    /\ pc \in {"loop", "writing", "done"} => Len(ttc) = Len(InputFonts)
    /\ pc = "done" =>
          /\ Len(OutputFonts) = Len(InputFonts)
          /\ \A k \in DOMAIN InputFonts :
                /\ OutputFonts[k].id = InputFonts[k].id
                /\ OutputFonts[k].other = InputFonts[k].other
                /\ DOMAIN OutputFonts[k].cmap = DOMAIN InputFonts[k].cmap

\* C3 witness: a completed call on two fonts, one of which has a subtable
\* of excluded keys only.
StructuralInvarianceWitness ==
    /\ pc = "done"
    /\ Len(InputFonts) = 2
    /\ \E k \in DOMAIN InputFonts :
          \E t \in DOMAIN InputFonts[k].cmap :
             /\ Keys(InputFonts[k].cmap[t]) # {}
             /\ Keys(InputFonts[k].cmap[t]) \subseteq EXCLUDED_CODEPOINTS

\* The mapping content of a collection: per font, per subtable, its pairs.
MappingContent(fonts) == [k \in DOMAIN fonts |-> fonts[k].cmap]

\* C4: idempotence: a second call, on the output of the first, writes the
\* mapping content the first call wrote and removes no entry of its input.
Idempotence ==
    (pc = "done" /\ rerun) =>
        /\ MappingContent(OutputFonts) = MappingContent(firstOut)
        /\ MappingContent(OutputFonts) = MappingContent(InputFonts)

\* C4 witness: a completed second call, from system/fonts to a third
\* directory, on the output of a first call whose input (still in
\* temp/chws_output) had subtables with two excluded keys.
IdempotenceWitness ==
    /\ pc = "done"
    /\ rerun
    /\ ttc_path[1] = ResultDir
    /\ out_dir = InputDir
    /\ LET first == fs[Join(ChwsDir, NameOf(ttc_path))]
       IN  /\ IsContainer(first)
           /\ \E k \in DOMAIN first.fonts :
                 \E t \in DOMAIN first.fonts[k].cmap :
                    Cardinality(Keys(first.fonts[k].cmap[t])
                                   \cap EXCLUDED_CODEPOINTS) = 2
           /\ MappingContent(first.fonts) # MappingContent(firstOut)

\* The sets line 61 gives for the six orders of uniting the three sources.
ExclusionSetsInAllOrders ==
    LET a == EMOJI_IN_CJK
        b == ANDROID_EMOJI
        c == CONTROL_CHARS
    IN  { ExclusionSetOf(a, b, c), ExclusionSetOf(a, c, b),
          ExclusionSetOf(b, a, c), ExclusionSetOf(b, c, a),
          ExclusionSetOf(c, a, b), ExclusionSetOf(c, b, a) }

\* C5: whenever remove_codepoints_from_ttc runs, the exclusion set it uses is
\* EMOJI_IN_CJK with ANDROID_EMOJI with the 32 integers 0x0000 .. 0x001F,
\* whatever the order the three are united in.
ExclusionSetIsUnion ==
    pc \in {"start", "loop", "writing", "done"} =>
        /\ CONTROL_CHARS = 0 .. 31
        /\ Cardinality(CONTROL_CHARS) = 32
        /\ EXCLUDED_CODEPOINTS = EMOJI_IN_CJK \cup ANDROID_EMOJI \cup (0 .. 31)
        /\ ExclusionArgument = EXCLUDED_CODEPOINTS
        /\ ExclusionSetsInAllOrders = {EXCLUDED_CODEPOINTS}

\* C5 witness: a completed call whose input held a key of each source, the
\* last control character 0x1F among them, and whose output holds none.
ExclusionSetIsUnionWitness ==
    /\ pc = "done"
    /\ \E k \in DOMAIN InputFonts :
          /\ {\h1F, \h2600} \subseteq Keys(InputFonts[k].cmap[<<4, 3, 1>>])
          /\ {\h09, \h26BD} \subseteq Keys(InputFonts[k].cmap[<<12, 3, 10>>])
          /\ Keys(OutputFonts[k].cmap[<<4, 3, 1>>]) = {}
          /\ Keys(OutputFonts[k].cmap[<<12, 3, 10>>]) = {\h41}

\* C6 as claimed: whenever the call fails, the file at out_path is as it was
\* before the call (nothing was written) or is the full rewritten collection.
AllOrNothingOutput ==
    pc \in {"ParseError", "WriteError"} =>
        \/ fs[out_path] = fs0[out_path]
        \/ fs[out_path] = FileOf(ttc)

\* C7 as claimed: the path the call writes to is never the input file, and
\* the file at ttc_path keeps the content it had when the call started.
InputNeverModified ==
    /\ pc \in {"writing", "done", "WriteError"} => out_path # ttc_path
    /\ fs[ttc_path] = fs0[ttc_path]

RECURSIVE EditedInOrder(_, _, _)
EditedInOrder(fonts, order, j) ==
    IF j = 0 THEN fonts
    ELSE LET prev == EditedInOrder(fonts, order, j - 1)
         IN  [prev EXCEPT ![order[j]] =
                 delete_from_cmap(prev[order[j]], ExclusionArgument)]

IsPrefix(s, t) == Len(s) <= Len(t) /\ s = SubSeq(t, 1, Len(s))

\* C10: the steps run in the order download, CHWS patch, subset, removal of
\* temp; the patch and the subset run only after download_file returned True;
\* when it returned False nothing but the download ran, nothing under
\* system/fonts changed and the opened input file is still there, empty; temp
\* is removed only after the subset step wrote its result.
PipelineOrder ==
    /\ IsPrefix(calls, <<"download_file", "add_chws",
                         "remove_codepoints_from_ttc", "rmtree">>)
    /\ Len(calls) >= 2 => dlResult = "True"
    /\ dlResult = "False" =>
          /\ pc \in {"downloaded", "returned"}
          /\ calls = <<"download_file">>
          /\ \A name \in BaseNames :
                fs[Join(ResultDir, name)] = fs0[Join(ResultDir, name)]
          /\ fs[input_file] = Empty
    /\ (pc \notin {"pipeline", "finished"}) => fs[input_file] # Absent
    /\ Len(calls) = 4 =>
          /\ pc = "finished"
          /\ fs[out_path] = FileOf(ttc)
          /\ \A k \in DOMAIN ttc : ~HasExcluded(ttc[k])

\* C10 witness: download_file returned False and the function has returned.
PipelineOrderWitness ==
    /\ pc = "returned"
    /\ dlResult = "False"
    /\ fs[input_file] = Empty

====
